---- MODULE Spec2Model ----
(***************************************************************************)
(* Scroll coordination of the star background (src/stars.js, and the older *)
(* src/unnamed/part_000 with setupParallax and ensureScrollableHeight): the *)
(* real                                                                    *)
(* document scroll, the wheel-driven virtual scroll extension, the         *)
(* requestAnimationFrame coalescing and the per-layer parallax transform.  *)
(*                                                                         *)
(* Numbers: scroll offsets and wheel deltas are integers (pixels).  The    *)
(* parallax coefficients 1.0, 0.7, 0.45, 0.25, 0.10 are kept as hundredths *)
(* (100, 70, 45, 25, 10), so a layer transform is held in hundredths of a  *)
(* pixel and no rounding is introduced.                                    *)
(***************************************************************************)
EXTENDS Integers, FiniteSets, Sequences, TLC

VARIABLES
    mode,               \* which setup function wired the listeners ("Parallax"
                        \* is setupParallax of the older file)
    useVirtualScroll,   \* stars.js:60, the virtualScroll option kept by init
    layerPresent,       \* the layers getElementById('star-layer-i') finds
    spacers,            \* heights of the elements with id star-scroll-spacer
    virtualScrollY,     \* stars.js:59, the virtual offset
    ticking,            \* the closure's render-pending flag
    rafQueue,           \* number of callbacks waiting in requestAnimationFrame
    scrollY,            \* window.scrollY
    scrollHeight,       \* document.body.scrollHeight
    innerHeight,        \* window.innerHeight
    scrollEventPending, \* a scroll change whose scroll event is not yet dispatched
    overflow,           \* style.overflow of body and documentElement
    rendered,           \* the scrollValue last passed to updateStarPositions
    transform,          \* translateY of each layer, in hundredths of a pixel
    last,               \* the operation that produced this state, with its event
    handled,            \* events delivered to a handler since the last frame
    lastFrame           \* what the most recent frame ran

vars == <<mode, useVirtualScroll, layerPresent, spacers, virtualScrollY, ticking, rafQueue, scrollY, scrollHeight,
          innerHeight, scrollEventPending, overflow, rendered, transform,
          last, handled, lastFrame>>

----------------------------------------------------------------------------
(* Bounds of the exploration *)

MaxEventsPerFrame == 3

WheelDeltas == {-2500, -1000, 0, 1000, 2500}
ScrollHeights == {500, 803, 1800}
InnerHeights == {800}
ScrollYs == {0, 3, 994, 995, 1000}

----------------------------------------------------------------------------
(* CONFIG and literals of the source *)

MaxOffset == 2000
Sensitivity == 1
Tolerance == 5
Layers == 1..5
\* Variant of CONFIG.parallax with two coefficients exchanged.
ParallaxSwapped == <<100, 45, 70, 25, 10>>

Parallax == <<100, 70, 45, 25, 10>>

Max(a, b) == IF a >= b THEN a ELSE b
Min(a, b) == IF a <= b THEN a ELSE b

----------------------------------------------------------------------------
(* Pure parts of the handlers *)

\* Math.max(0, document.body.scrollHeight - window.innerHeight)
MaxRealScroll(sh, ih) == Max(0, sh - ih)

\* realScroll >= maxRealScroll - 5
AtBottom(sy, sh, ih) == sy >= MaxRealScroll(sh, ih) - Tolerance

\* maxRealScroll > 5
ContentScrollable(sh, ih) == MaxRealScroll(sh, ih) > Tolerance

\* Variants of the forward step: one without the upper clamp, one that
\* assigns the scaled delta instead of accumulating it.
ForwardAtEndUnclamped(v, d) == v + d * Sensitivity
ForwardAtEndAssign(v, d) == Min(MaxOffset, d * Sensitivity)

\* virtualScrollY += deltaY * sensitivity; virtualScrollY = Math.min(maxOffset, virtualScrollY)
ForwardAtEnd(v, d) == Min(MaxOffset, v + d * Sensitivity)

\* Variant of the backward step without the lower clamp.
RetractVirtualUnclamped(v, d) == v + d * Sensitivity

\* virtualScrollY += deltaY * sensitivity; virtualScrollY = Math.max(0, virtualScrollY)
RetractVirtual(v, d) == Max(0, v + d * Sensitivity)

\* Variant of the pure virtual step that clamps only at 0.
PureVirtualNoUpperClamp(v, d) == Max(0, v + d * Sensitivity)

\* virtualScrollY = Math.max(0, Math.min(maxOffset, virtualScrollY + deltaY * sensitivity))
PureVirtual(v, d) == Max(0, Min(MaxOffset, v + d * Sensitivity))

\* Variant of onWheel that calls preventDefault on every backward wheel taken
\* by the virtual zone, also when the retraction has finished.
OnWheelCombinedAlwaysPrevent(v, sy, sh, ih, d) ==
    IF ContentScrollable(sh, ih)
    THEN IF AtBottom(sy, sh, ih) /\ d > 0
         THEN [virtualScrollY |-> ForwardAtEnd(v, d), prevented |-> FALSE]
         ELSE IF v > 0 /\ d < 0
              THEN [virtualScrollY |-> RetractVirtual(v, d), prevented |-> TRUE]
              ELSE [virtualScrollY |-> v, prevented |-> FALSE]
    ELSE [virtualScrollY |-> PureVirtual(v, d), prevented |-> FALSE]

\* Variant of onWheel that extends the virtual offset on every forward wheel,
\* also away from the end of the content.
OnWheelCombinedAnywhere(v, sy, sh, ih, d) ==
    IF ContentScrollable(sh, ih)
    THEN IF d > 0
         THEN [virtualScrollY |-> ForwardAtEnd(v, d), prevented |-> FALSE]
         ELSE IF v > 0 /\ d < 0
              THEN [virtualScrollY |-> RetractVirtual(v, d),
                    prevented |-> RetractVirtual(v, d) > 0]
              ELSE [virtualScrollY |-> v, prevented |-> FALSE]
    ELSE [virtualScrollY |-> PureVirtual(v, d), prevented |-> FALSE]

\* The part of setupCombinedScrollParallax.onWheel before the scheduling:
\* the new virtual offset and whether e.preventDefault() was called.
OnWheelCombined(v, sy, sh, ih, d) ==
    IF ContentScrollable(sh, ih)
    THEN IF AtBottom(sy, sh, ih) /\ d > 0
         THEN [virtualScrollY |-> ForwardAtEnd(v, d), prevented |-> FALSE]
         ELSE IF v > 0 /\ d < 0
              THEN [virtualScrollY |-> RetractVirtual(v, d),
                    prevented |-> RetractVirtual(v, d) > 0]
              ELSE [virtualScrollY |-> v, prevented |-> FALSE]
    ELSE [virtualScrollY |-> PureVirtual(v, d), prevented |-> FALSE]

\* setupCombinedScrollParallax.getEffectiveScroll: the value it returns and
\* the virtual offset it leaves behind.
GetEffectiveScroll(v, sy, sh, ih) ==
    IF AtBottom(sy, sh, ih)
    THEN [value |-> sy + v, virtualScrollY |-> v]
    ELSE [value |-> sy, virtualScrollY |-> 0]

\* Variant of the frame callback that renders a position captured earlier
\* (the one already rendered) instead of reading the state when it runs.
FramePositionCaptured(m, v, sy, sh, ih) ==
    [value |-> rendered, virtualScrollY |-> v]

\* The argument each mode's frame callback passes to updateStarPositions,
\* with the virtual offset left behind by computing it.
FramePosition(m, v, sy, sh, ih) ==
    CASE m = "RealOnly"    -> [value |-> sy, virtualScrollY |-> v]
      [] m = "Parallax"    -> [value |-> sy, virtualScrollY |-> v]
      [] m = "VirtualOnly" -> [value |-> v, virtualScrollY |-> v]
      [] m = "Combined"    -> GetEffectiveScroll(v, sy, sh, ih)

\* The argument of the updateStarPositions call that ends each setup function.
SetupPosition(m, sy) == IF m \in {"RealOnly", "Parallax"} THEN sy ELSE 0

\* Variant of disableScroll that toggles instead of setting.
DisableScrollToggle(o) ==
    IF o.body = "hidden"
    THEN [body |-> "", documentElement |-> ""]
    ELSE [body |-> "hidden", documentElement |-> "hidden"]

\* disableScroll / enableScroll: the inline overflow of body and documentElement
DisableScrollStyle(o) == [body |-> "hidden", documentElement |-> "hidden"]
EnableScrollStyle(o) == [body |-> "", documentElement |-> ""]

\* Variant of setup that wires the wheel-only handler for virtualScroll = true.
SelectModeVirtualOnly(virtualScroll) ==
    IF virtualScroll THEN "VirtualOnly" ELSE "RealOnly"

\* setup: setupCombinedScrollParallax if virtualScroll, else setupRealScrollParallax
SelectMode(virtualScroll) == IF virtualScroll THEN "Combined" ELSE "RealOnly"

\* Variant of updateStarPositions that stops at the first missing layer
\* instead of skipping it: the layers after it keep their old transform.
UpdateStarPositionsStopAtMissing(scrollValue) ==
    [i \in layerPresent |->
        IF \A j \in 1..i : j \in layerPresent
        THEN (0 - scrollValue) * Parallax[i]
        ELSE transform[i]]

\* updateStarPositions: translateY(-scrollValue * coefficient) of every layer
\* that getElementById finds; a missing layer is skipped.
UpdateStarPositions(scrollValue) ==
    [i \in layerPresent |-> (0 - scrollValue) * Parallax[i]]

\* Variant in which every setup function also registers the wheel listener.
WheelSubscribedAlways(m) == TRUE

\* Which listeners each setup function registers
ScrollSubscribed(m) == m \in {"RealOnly", "Combined", "Parallax"}
WheelSubscribed(m) == m \in {"VirtualOnly", "Combined"}

\* Variant of the handlers' tail that ignores the pending flag.
ShouldRequestFrameAlways(t) == TRUE

\* if (!ticking) { requestAnimationFrame(...); ticking = true; }
ShouldRequestFrame(t) == ~t

\* The height the spacer elements add to document.body.scrollHeight
RECURSIVE SpacerTotal(_)
SpacerTotal(sp) == IF sp = <<>> THEN 0 ELSE Head(sp) + SpacerTotal(Tail(sp))

\* ensureScrollableHeight (older file): the spacer elements it leaves, given
\* the spacers, body.scrollHeight, innerHeight and minScreens it finds.
EnsureSpacers(sp, sh, ih, minScreens) ==
    IF sh < ih * minScreens
    THEN IF sp = <<>>
         THEN <<ih * minScreens - sh>>
         ELSE [sp EXCEPT ![1] = ih * minScreens - sh]
    ELSE sp

----------------------------------------------------------------------------
(* State after init(options) has run setup() *)

Event(op, d, p, left) ==
    [op |-> op, deltaY |-> d, prevented |-> p, leftEnd |-> left]

InitPage(m, virtualScroll, scrollable) ==
    /\ mode = m
    /\ useVirtualScroll = virtualScroll
    /\ layerPresent = Layers
    /\ spacers = <<>>
    /\ virtualScrollY = 0
    /\ ticking = FALSE
    /\ rafQueue = 0
    /\ innerHeight \in InnerHeights
    /\ scrollHeight \in ScrollHeights
    /\ scrollY \in {s \in ScrollYs : s <= MaxRealScroll(scrollHeight, innerHeight)}
    /\ scrollEventPending = FALSE
    /\ overflow = IF scrollable
                  THEN [body |-> "", documentElement |-> ""]
                  ELSE DisableScrollStyle([body |-> "", documentElement |-> ""])
    /\ rendered = SetupPosition(m, scrollY)
    /\ transform = UpdateStarPositions(SetupPosition(m, scrollY))
    /\ last = Event("setup", 0, FALSE, FALSE)
    /\ handled = 0
    /\ lastFrame = [events |-> 0, renders |-> 0]

\* init: virtualScroll selects setupCombinedScrollParallax or setupRealScrollParallax
Init ==
    \E virtualScroll \in BOOLEAN, scrollable \in BOOLEAN :
        InitPage(SelectMode(virtualScroll), virtualScroll, scrollable)

\* setupVirtualScrollParallax taken as the entry point (init never calls it,
\* so useVirtualScroll keeps its initial value)
InitVirtual == InitPage("VirtualOnly", FALSE, TRUE)

InitAll == Init \/ InitVirtual

----------------------------------------------------------------------------
(* Operations *)

\* The tail of every handler: schedule one callback unless one is pending.
Schedule ==
    IF ShouldRequestFrame(ticking)
    THEN /\ rafQueue' = rafQueue + 1
         /\ ticking' = TRUE
    ELSE UNCHANGED <<rafQueue, ticking>>

\* A wheel event with deltaY = d is dispatched.
WheelEvent(d) ==
    /\ WheelSubscribed(mode) => handled < MaxEventsPerFrame
    /\ IF WheelSubscribed(mode)
       THEN LET r == IF mode = "VirtualOnly"
                     THEN [virtualScrollY |-> PureVirtual(virtualScrollY, d),
                           prevented |-> FALSE]
                     ELSE OnWheelCombined(virtualScrollY, scrollY,
                                          scrollHeight, innerHeight, d)
            IN /\ virtualScrollY' = r.virtualScrollY
               /\ last' = Event("wheel", d, r.prevented, FALSE)
               /\ Schedule
               /\ handled' = handled + 1
       ELSE /\ last' = Event("wheel", d, FALSE, FALSE)
            /\ UNCHANGED <<virtualScrollY, rafQueue, ticking, handled>>
    /\ UNCHANGED <<mode, useVirtualScroll, layerPresent, spacers,
                   scrollY, scrollHeight, innerHeight, scrollEventPending,
                   overflow, rendered, transform, lastFrame>>

\* The real scroll offset changes (native scrolling, scrollbar, scrollTo).
RealScrollChange(s) ==
    /\ s <= MaxRealScroll(scrollHeight, innerHeight)
    /\ s # scrollY
    /\ scrollY' = s
    /\ scrollEventPending' = TRUE
    /\ last' = Event("scrollTo", 0, FALSE,
                     /\ AtBottom(scrollY, scrollHeight, innerHeight)
                     /\ virtualScrollY > 0
                     /\ ~AtBottom(s, scrollHeight, innerHeight))
    /\ UNCHANGED <<mode, useVirtualScroll, layerPresent, spacers,
                   virtualScrollY, ticking, rafQueue, scrollHeight,
                   innerHeight, overflow, rendered, transform, handled, lastFrame>>

\* The scroll event of the latest scroll change is dispatched.
ScrollEvent ==
    /\ scrollEventPending
    /\ ScrollSubscribed(mode) => handled < MaxEventsPerFrame
    /\ scrollEventPending' = FALSE
    /\ last' = Event("scroll", 0, FALSE, last.op = "scrollTo" /\ last.leftEnd)
    /\ IF ScrollSubscribed(mode)
       THEN Schedule /\ handled' = handled + 1
       ELSE UNCHANGED <<rafQueue, ticking, handled>>
    /\ UNCHANGED <<mode, useVirtualScroll, layerPresent, spacers,
                   virtualScrollY, scrollY, scrollHeight, innerHeight,
                   overflow, rendered, transform, lastFrame>>

\* The content height changes; the browser keeps scrollY within the new range.
ContentResize(h) ==
    /\ h + SpacerTotal(spacers) # scrollHeight
    /\ scrollHeight' = h + SpacerTotal(spacers)
    /\ scrollY' = Min(scrollY, MaxRealScroll(scrollHeight', innerHeight))
    /\ scrollEventPending' = (scrollEventPending \/ scrollY' # scrollY)
    /\ last' = Event("resize", 0, FALSE, FALSE)
    /\ UNCHANGED <<mode, useVirtualScroll, layerPresent, spacers,
                   virtualScrollY, ticking, rafQueue, innerHeight,
                   overflow, rendered, transform, handled, lastFrame>>

\* An animation frame: every queued callback runs.  The callbacks of one
\* frame are the same closure run back to back, so after the first one the
\* others recompute the same position from the same state.
Frame ==
    /\ lastFrame' = [events |-> handled, renders |-> rafQueue]
    /\ handled' = 0
    /\ rafQueue' = 0
    /\ last' = Event("frame", 0, FALSE, FALSE)
    /\ IF rafQueue > 0
       THEN LET p == FramePosition(mode, virtualScrollY, scrollY,
                                   scrollHeight, innerHeight)
            IN /\ virtualScrollY' = p.virtualScrollY
               /\ rendered' = p.value
               /\ transform' = UpdateStarPositions(p.value)
               /\ ticking' = FALSE
       ELSE UNCHANGED <<virtualScrollY, rendered, transform, ticking>>
    /\ UNCHANGED <<mode, useVirtualScroll, layerPresent, spacers,
                   scrollY, scrollHeight, innerHeight, scrollEventPending,
                   overflow>>

\* Variant of disableScroll that also drops the virtual offset.
DisableScrollResetsVirtual ==
    /\ overflow' = DisableScrollStyle(overflow)
    /\ virtualScrollY' = 0
    /\ last' = Event("disableScroll", 0, FALSE, FALSE)
    /\ UNCHANGED <<mode, useVirtualScroll, layerPresent, spacers, ticking,
                   rafQueue, scrollY, scrollHeight, innerHeight,
                   scrollEventPending, rendered, transform, handled, lastFrame>>

DisableScroll ==
    /\ overflow' = DisableScrollStyle(overflow)
    /\ last' = Event("disableScroll", 0, FALSE, FALSE)
    /\ UNCHANGED <<mode, useVirtualScroll, layerPresent, spacers,
                   virtualScrollY, ticking, rafQueue, scrollY, scrollHeight,
                   innerHeight, scrollEventPending, rendered, transform,
                   handled, lastFrame>>

EnableScroll ==
    /\ overflow' = EnableScrollStyle(overflow)
    /\ last' = Event("enableScroll", 0, FALSE, FALSE)
    /\ UNCHANGED <<mode, useVirtualScroll, layerPresent, spacers,
                   virtualScrollY, ticking, rafQueue, scrollY, scrollHeight,
                   innerHeight, scrollEventPending, rendered, transform,
                   handled, lastFrame>>

Next ==
    \/ \E d \in WheelDeltas : WheelEvent(d)
    \/ \E s \in ScrollYs : RealScrollChange(s)
    \/ ScrollEvent
    \/ \E h \in ScrollHeights : ContentResize(h)
    \/ Frame
    \/ DisableScroll
    \/ EnableScroll

Spec == Init /\ [][Next]_vars

SpecAll == InitAll /\ [][Next]_vars

\* The browser runs the queued requestAnimationFrame callbacks at every frame.
SpecLive == InitAll /\ [][Next]_vars /\ WF_vars(Frame)

----------------------------------------------------------------------------
(* The older file: setupParallax with ensureScrollableHeight *)

MinScreens == {1, 2, 3}
ViewportHeights == {800, 900}
ContentHeights == {500, 1800}

EnsureEvent(m) ==
    [op |-> "ensureScrollableHeight", deltaY |-> 0, prevented |-> FALSE,
     leftEnd |-> FALSE, minScreens |-> m]

\* init of the older file: setupParallax renders window.scrollY, then
\* enableScroll and ensureScrollableHeight(minScreens), or disableScroll.
InitLegacy ==
    \E scrollable \in BOOLEAN, m \in MinScreens, h \in ContentHeights :
        /\ mode = "Parallax"
        /\ useVirtualScroll = FALSE
        /\ layerPresent = Layers
        /\ virtualScrollY = 0
        /\ ticking = FALSE
        /\ rafQueue = 0
        /\ innerHeight \in ViewportHeights
        /\ spacers = IF scrollable
                     THEN EnsureSpacers(<<>>, h, innerHeight, m)
                     ELSE <<>>
        /\ scrollHeight = h + SpacerTotal(spacers)
        /\ scrollY \in {s \in ScrollYs : s <= MaxRealScroll(h, innerHeight)}
        /\ scrollEventPending = FALSE
        /\ overflow = IF scrollable
                      THEN EnableScrollStyle([body |-> "", documentElement |-> ""])
                      ELSE DisableScrollStyle([body |-> "", documentElement |-> ""])
        /\ rendered = SetupPosition("Parallax", scrollY)
        /\ transform = UpdateStarPositions(SetupPosition("Parallax", scrollY))
        /\ last = Event("setup", 0, FALSE, FALSE)
        /\ handled = 0
        /\ lastFrame = [events |-> 0, renders |-> 0]

\* ensureScrollableHeight(m) is called through StarBackground.
EnsureScrollableHeight(m) ==
    /\ mode = "Parallax"
    /\ spacers' = EnsureSpacers(spacers, scrollHeight, innerHeight, m)
    /\ scrollHeight' = scrollHeight - SpacerTotal(spacers) + SpacerTotal(spacers')
    /\ scrollY' = Min(scrollY, MaxRealScroll(scrollHeight', innerHeight))
    /\ scrollEventPending' = (scrollEventPending \/ scrollY' # scrollY)
    /\ last' = EnsureEvent(m)
    /\ UNCHANGED <<mode, useVirtualScroll, layerPresent, virtualScrollY, ticking,
                   rafQueue, innerHeight, overflow, rendered, transform,
                   handled, lastFrame>>

\* The viewport height changes; the browser keeps scrollY within the new range.
ViewportResize(ih) ==
    /\ ih # innerHeight
    /\ innerHeight' = ih
    /\ scrollY' = Min(scrollY, MaxRealScroll(scrollHeight, ih))
    /\ scrollEventPending' = (scrollEventPending \/ scrollY' # scrollY)
    /\ last' = Event("viewportResize", 0, FALSE, FALSE)
    /\ UNCHANGED <<mode, useVirtualScroll, layerPresent, spacers, virtualScrollY,
                   ticking, rafQueue, scrollHeight, overflow, rendered,
                   transform, handled, lastFrame>>

NextLegacy ==
    \/ \E m \in MinScreens : EnsureScrollableHeight(m)
    \/ \E ih \in ViewportHeights : ViewportResize(ih)
    \/ \E h \in ContentHeights : ContentResize(h)
    \/ ScrollEvent
    \/ Frame

SpecLegacy == InitLegacy /\ [][NextLegacy]_vars

----------------------------------------------------------------------------
(* Layers that go missing *)

\* The layers that may be removed from the document.
RemovableLayers == {2, 5}

\* Layer i is removed from the document: getElementById no longer finds it.
LayerRemoved(i) ==
    /\ i \in layerPresent
    /\ layerPresent' = layerPresent \ {i}
    /\ transform' = [j \in layerPresent \ {i} |-> transform[j]]
    /\ last' = Event("layerRemoved", 0, FALSE, FALSE)
    /\ UNCHANGED <<mode, useVirtualScroll, spacers, virtualScrollY, ticking,
                   rafQueue, scrollY, scrollHeight, innerHeight,
                   scrollEventPending, overflow, rendered, handled, lastFrame>>

NextLayers ==
    \/ Next
    \/ \E i \in RemovableLayers : LayerRemoved(i)

SpecLayers == Init /\ [][NextLayers]_vars

----------------------------------------------------------------------------
(* A frame whose render throws *)

\* How many layers updateStarPositions has written when it throws.
ThrowAfter == {0}

\* The frame callback when updateStarPositions throws (for instance after
\* CONFIG.parallax, reachable through StarBackground.CONFIG, was replaced):
\* the argument, getEffectiveScroll included, has been evaluated, the layers
\* before the throw are written, and the statement after the call,
\* ticking = false, is never reached.
FrameThrows(k) ==
    /\ rafQueue > 0
    /\ lastFrame' = [events |-> handled, renders |-> rafQueue]
    /\ handled' = 0
    /\ rafQueue' = 0
    /\ last' = Event("frameError", 0, FALSE, FALSE)
    /\ LET p == FramePosition(mode, virtualScrollY, scrollY,
                              scrollHeight, innerHeight)
       IN /\ virtualScrollY' = p.virtualScrollY
          /\ rendered' = p.value
          /\ transform' = [i \in layerPresent |->
                             IF i <= k THEN UpdateStarPositions(p.value)[i]
                                       ELSE transform[i]]
    /\ UNCHANGED <<mode, useVirtualScroll, layerPresent, spacers, ticking,
                   scrollY, scrollHeight, innerHeight, scrollEventPending,
                   overflow>>

NextFail ==
    \/ Next
    \/ \E k \in ThrowAfter : FrameThrows(k)

SpecFail == Init /\ [][NextFail]_vars

----------------------------------------------------------------------------
(* Derived views used by the properties *)

\* The real scroll is within 5 pixels of the end of the scrollable content.
AtEnd == scrollY >= Max(0, scrollHeight - innerHeight) - 5

\* The content scrolls by more than the 5 pixel tolerance.
Scrollable == Max(0, scrollHeight - innerHeight) > 5

\* This state was produced by a call of updateStarPositions: the one that
\* ends setup, or the callback of the frame that has just run.
JustRendered ==
    \/ last.op = "setup"
    \/ last.op = "frame" /\ lastFrame.renders >= 1

----------------------------------------------------------------------------
(* C1: in Combined mode the virtual offset stays within [0, maxOffset] in
   every reachable state, whatever wheel, scroll, scroll-change,
   content-height and frame steps led there. *)
C1_VirtualOffsetInRange ==
    mode = "Combined" => (0 <= virtualScrollY /\ virtualScrollY <= MaxOffset)

\* A forward wheel at the end of scrollable content that overshot and was
\* clamped to maxOffset.
C1_Witness ==
    /\ mode = "Combined"
    /\ Scrollable
    /\ AtEnd
    /\ last.op = "wheel"
    /\ last.deltaY * Sensitivity > MaxOffset
    /\ virtualScrollY = MaxOffset

(* C2: at most one render callback is pending at any time, and a frame that
   was preceded by k >= 1 events delivered to the handlers invokes the
   renderer exactly once (never more than once in any frame). *)
C2_OneRenderPerFrame ==
    /\ rafQueue <= 1
    /\ lastFrame.renders <= 1
    /\ lastFrame.events >= 1 => lastFrame.renders = 1

\* A frame that coalesced several events into one render.
C2_Witness ==
    /\ last.op = "frame"
    /\ lastFrame.events >= 2
    /\ lastFrame.renders = 1

(* C3: in Combined mode, in every reachable state in which every scroll
   change has been delivered to the scroll handler, the virtual offset is 0
   whenever the real scroll is not at the end of the content. *)
C3_VirtualZeroAwayFromEnd ==
    (mode = "Combined" /\ ~scrollEventPending /\ ~AtEnd) => virtualScrollY = 0

(* C4: in Combined mode with scrollable content, a wheel event with positive
   delta d at the scroll end sets the virtual offset to
   min(maxOffset, virtualOffset + d * sensitivity), and the effective
   position computed afterwards is realScroll + virtualOffset. *)
C4_ForwardWheelAtEnd ==
    [][(/\ mode = "Combined"
        /\ Scrollable
        /\ AtEnd
        /\ last'.op = "wheel"
        /\ last'.deltaY > 0)
       => (/\ virtualScrollY' =
                 Min(MaxOffset, virtualScrollY + last'.deltaY * Sensitivity)
           /\ FramePosition(mode', virtualScrollY', scrollY', scrollHeight',
                            innerHeight').value = scrollY' + virtualScrollY')]_vars

\* From virtual offset 0 at the bottom one forward wheel gave an offset
\* strictly inside (0, maxOffset).
C4_Witness ==
    /\ mode = "Combined"
    /\ Scrollable
    /\ AtEnd
    /\ last.op = "wheel"
    /\ last.deltaY > 0
    /\ virtualScrollY = last.deltaY * Sensitivity
    /\ virtualScrollY < MaxOffset

(* C5: in Combined mode with scrollable content, a wheel event with negative
   delta d while the virtual offset is > 0 sets it to
   max(0, virtualOffset - |d| * sensitivity), and the event's default is
   prevented exactly when the offset is still > 0 afterwards. *)
C5_BackwardWheelRetracts ==
    [][(/\ mode = "Combined"
        /\ Scrollable
        /\ virtualScrollY > 0
        /\ last'.op = "wheel"
        /\ last'.deltaY < 0)
       => (/\ virtualScrollY' =
                 Max(0, virtualScrollY - (0 - last'.deltaY) * Sensitivity)
           /\ last'.prevented = (virtualScrollY' > 0))]_vars

\* A backward wheel that left part of the virtual offset and was prevented.
C5_Witness ==
    /\ mode = "Combined"
    /\ Scrollable
    /\ last.op = "wheel"
    /\ last.deltaY < 0
    /\ last.prevented
    /\ virtualScrollY > 0
    /\ virtualScrollY < MaxOffset

(* C6: in Combined mode, once the real position has been scrolled from the
   bottom with a virtual offset > 0 to a position that is no longer at the
   end, the virtual offset is 0 as soon as the scroll handler of that change
   has been processed. *)
C6_ResetOnScrollUpdate ==
    (/\ mode = "Combined"
     /\ last.op = "scroll"
     /\ last.leftEnd
     /\ ~AtEnd)
    => virtualScrollY = 0

(* C7: in RealOnly mode the position passed to the renderer is the real
   scroll offset at the time of the render, and wheel events do nothing:
   the virtual offset stays 0, no event is prevented and none schedules a
   render. *)
C7_RealOnlyRendersRealScroll ==
    mode = "RealOnly" =>
        /\ virtualScrollY = 0
        /\ JustRendered => rendered = scrollY
        /\ last.op = "wheel" => ~last.prevented
        /\ (rafQueue > 0) = (handled > 0)

\* A frame in RealOnly mode that rendered a non-zero real offset.
C7_Witness ==
    /\ mode = "RealOnly"
    /\ last.op = "frame"
    /\ lastFrame.renders = 1
    /\ scrollY > 0
    /\ rendered = scrollY

(* C8 as stated: in the pure-virtual variant (setupVirtualScrollParallax and
   the non-scrollable branch of Combined mode) every position passed to the
   renderer lies within [0, maxOffset]. *)
C8_Original ==
    (/\ mode = "VirtualOnly" \/ (mode = "Combined" /\ ~Scrollable)
     /\ JustRendered)
    => (0 <= rendered /\ rendered <= MaxOffset)

(* C8 amended: under setupVirtualScrollParallax every rendered position lies
   within [0, maxOffset]; in the non-scrollable branch of Combined mode it
   lies within [0, maxOffset + realScroll], where realScroll is at most the
   5 pixel tolerance. *)
C8_VirtualPositionBounded ==
    /\ (mode = "VirtualOnly" /\ JustRendered)
          => (0 <= rendered /\ rendered <= MaxOffset)
    /\ (mode = "Combined" /\ ~Scrollable /\ JustRendered)
          => /\ 0 <= rendered
             /\ rendered <= MaxOffset + scrollY
             /\ scrollY <= Tolerance

\* The non-scrollable branch rendering the full virtual offset on top of a
\* real scroll of a few pixels.
C8_Witness ==
    /\ mode = "Combined"
    /\ ~Scrollable
    /\ last.op = "frame"
    /\ lastFrame.renders = 1
    /\ scrollY > 0
    /\ rendered = MaxOffset + scrollY

(* C9: in every mode every position passed to the renderer is >= 0. *)
C9_PositionNonNegative ==
    JustRendered => rendered >= 0

\* A rendered position made of a real scroll and a virtual offset that a
\* backward wheel has partly retracted.
C9_Witness ==
    /\ last.op = "frame"
    /\ lastFrame.renders = 1
    /\ virtualScrollY > 0
    /\ virtualScrollY < MaxOffset
    /\ rendered = scrollY + virtualScrollY
    /\ scrollY > 0

(* C10: computing the effective position is a pure read: in every mode and
   every state it leaves the virtual offset unchanged (the real scroll
   offset and the pending flag are not written by it at all). *)
C10_EffectivePositionPure ==
    FramePosition(mode, virtualScrollY, scrollY, scrollHeight,
                  innerHeight).virtualScrollY = virtualScrollY

(* C11: a render that fails in a frame callback does not block later frames:
   after the failure the render-pending flag is cleared, so the next scroll
   or wheel event schedules a callback again. *)
C11_FailureClearsPending ==
    last.op = "frameError" => ~ticking

\* The effective position of the current state, per mode.
CurrentPosition ==
    CASE mode = "Combined"    -> IF AtEnd THEN scrollY + virtualScrollY ELSE scrollY
      [] mode = "VirtualOnly" -> virtualScrollY
      [] OTHER                -> scrollY

(* C12: with frames eventually delivered, every event handled by onScroll or
   onWheel is eventually followed by a render, and every render done by a
   frame callback applies the position of the state in which the callback
   runs, not one captured when it was scheduled. *)
C12_LastWriteWins ==
    /\ (handled > 0) ~> (last.op = "frame" /\ lastFrame.renders >= 1)
    /\ []((last.op = "frame" /\ lastFrame.renders >= 1)
             => rendered = CurrentPosition)

\* A frame that followed several events and rendered the final virtual offset.
C12_Witness ==
    /\ mode = "Combined"
    /\ last.op = "frame"
    /\ lastFrame.events >= 2
    /\ lastFrame.renders = 1
    /\ virtualScrollY = MaxOffset
    /\ rendered = scrollY + MaxOffset

(* C13: init selects the mode once: virtualScroll = false gives RealOnly,
   where only scroll events reach a handler, and virtualScroll = true gives
   Combined, where scroll and wheel events do; no scroll event, wheel event,
   frame, enableScroll or disableScroll changes the mode afterwards. *)
C13_ModeFixedAtInit ==
    /\ [](mode = IF useVirtualScroll THEN "Combined" ELSE "RealOnly")
    /\ [][/\ mode' = mode
          /\ useVirtualScroll' = useVirtualScroll
          /\ last'.op = "scroll" => handled' = handled + 1
          /\ last'.op = "wheel" =>
                handled' = IF useVirtualScroll THEN handled + 1 ELSE handled]_vars

\* A Combined instance after events, a rendered frame and a gate call.
C13_Witness ==
    /\ useVirtualScroll
    /\ mode = "Combined"
    /\ last.op = "enableScroll"
    /\ lastFrame.renders = 1
    /\ handled > 0

(* C14: the scroll gate is idempotent and callable in any state and mode:
   after disableScroll, however often it was called, scrolling is
   suppressed on body and documentElement; after enableScroll, however often
   it was called and whatever disableScroll calls preceded it, scrolling is
   restored on both. *)
C14_GateIdempotent ==
    /\ last.op = "disableScroll"
          => overflow = [body |-> "hidden", documentElement |-> "hidden"]
    /\ last.op = "enableScroll"
          => overflow = [body |-> "", documentElement |-> ""]

\* enableScroll called while a render is pending in RealOnly mode.
C14_Witness ==
    /\ mode = "RealOnly"
    /\ last.op = "enableScroll"
    /\ overflow.body = ""
    /\ ticking

\* The configured coefficients, in hundredths.
Coefficient == <<100, 70, 45, 25, 10>>

Abs(x) == IF x < 0 THEN 0 - x ELSE x

(* C15: a render of position p sets layer i's offset to -p * coefficient_i,
   and for p > 0 the offsets of the five layers strictly decrease in
   magnitude from layer 1 to layer 5. *)
C15_LayerOffsetsOrdered ==
    JustRendered =>
        /\ \A i \in Layers : transform[i] = (0 - rendered) * Coefficient[i]
        /\ rendered > 0 =>
               \A i \in 1..4 : Abs(transform[i]) > Abs(transform[i + 1])

\* A frame of the wheel-only variant that rendered a positive position.
C15_Witness ==
    /\ mode = "VirtualOnly"
    /\ last.op = "frame"
    /\ lastFrame.renders = 1
    /\ rendered > 0
    /\ transform[1] = (0 - rendered) * 100
    /\ transform[5] = (0 - rendered) * 10

(* C16: a layer whose surface is missing at render time is skipped: every
   layer that exists gets its offset -position * coefficient in the same
   pass, and the render-pending flag is cleared. *)
C16_MissingLayerSkipped ==
    (last.op = "frame" /\ lastFrame.renders >= 1) =>
        /\ ~ticking
        /\ DOMAIN transform = layerPresent
        /\ \A i \in layerPresent :
               transform[i] = (0 - rendered) * Coefficient[i]

\* A render of a new positive position with a layer missing.
C16_Witness ==
    /\ layerPresent # Layers
    /\ 5 \in layerPresent
    /\ last.op = "frame"
    /\ lastFrame.renders = 1
    /\ rendered > 0
    /\ transform[5] = (0 - rendered) * 10

(* C17: in Combined mode with scrollable content, a wheel event that is
   neither a forward wheel at the scroll end nor a backward wheel with a
   virtual offset > 0 leaves the virtual offset unchanged and is not
   prevented. *)
C17_OtherWheelsPassThrough ==
    [][(/\ mode = "Combined"
        /\ Scrollable
        /\ last'.op = "wheel"
        /\ ~(AtEnd /\ last'.deltaY > 0)
        /\ ~(virtualScrollY > 0 /\ last'.deltaY < 0))
       => (/\ virtualScrollY' = virtualScrollY
           /\ ~last'.prevented)]_vars

\* A forward wheel away from the end that left the virtual offset at 0.
C17_Witness ==
    /\ mode = "Combined"
    /\ Scrollable
    /\ ~AtEnd
    /\ last.op = "wheel"
    /\ last.deltaY > 0
    /\ virtualScrollY = 0
    /\ ~last.prevented

\* The virtual offset a wheel event with deltaY = d leaves, as a function of
\* the offset and the page geometry only.
WheelResult(v, d) ==
    CASE mode \in {"RealOnly", "Parallax"} -> v
      [] mode = "VirtualOnly" -> Max(0, Min(MaxOffset, v + d * Sensitivity))
      [] OTHER ->
           IF Scrollable
           THEN IF AtEnd /\ d > 0 THEN Min(MaxOffset, v + d * Sensitivity)
                ELSE IF v > 0 /\ d < 0 THEN Max(0, v + d * Sensitivity)
                ELSE v
           ELSE Max(0, Min(MaxOffset, v + d * Sensitivity))

(* C18: enableScroll and disableScroll leave the virtual offset, the
   render-pending flag, the mode and the layers' offsets unchanged, and a
   wheel event updates the virtual offset the same way whatever the gate
   state is. *)
C18_GateIndependentOfParallax ==
    [][/\ last'.op \in {"enableScroll", "disableScroll"}
             => UNCHANGED <<virtualScrollY, ticking, rafQueue, mode,
                            transform, rendered>>
       /\ last'.op = "wheel"
             => virtualScrollY' = WheelResult(virtualScrollY, last'.deltaY)]_vars

\* disableScroll called with a virtual offset in use and a render pending.
C18_Witness ==
    /\ mode = "Combined"
    /\ last.op = "disableScroll"
    /\ virtualScrollY > 0
    /\ ticking
    /\ rendered > 0

(* C19: right after setup every layer's offset is -effectivePosition *
   coefficient for the effective position of the current state, whatever
   the real scroll offset is at that moment. *)
C19_SetupRendersCurrentPosition ==
    last.op = "setup" =>
        \A i \in Layers : transform[i] = (0 - CurrentPosition) * Coefficient[i]

(* C20: right after every ensureScrollableHeight(m) call, whatever calls and
   viewport-height changes preceded it, the document scroll height (spacer
   included) is at least innerHeight * m, and at most one spacer element
   exists. *)
C20_MinimumScrollHeight ==
    last.op = "ensureScrollableHeight" =>
        /\ scrollHeight >= innerHeight * last.minScreens
        /\ Len(spacers) <= 1

====
